---- MODULE Spec2Model ----
(***************************************************************************)
(* Model of launch_control/utils/json/schema.py: the Schema keyword        *)
(* accessors and the recursive Validator.                                  *)
(*                                                                         *)
(* JSON values (documents and schema fragments alike) are records          *)
(* [k |-> kind, v |-> payload].  The kind is the Python type the JSON      *)
(* parser produces: "str" (basestring), "int", "float", "bool", "null"     *)
(* (NoneType), "obj" (dict, a function from keys to values) and "arr"      *)
(* (list, a sequence).  A float payload h stands for the number h/2, so    *)
(* JFlt(2) is 1.0 and JFlt(3) is 1.5.                                        *)
(***************************************************************************)
EXTENDS Integers, Sequences, FiniteSets, TLC

JStr(s)  == [k |-> "str", v |-> s]
JInt(n)  == [k |-> "int", v |-> n]
JFlt(h)  == [k |-> "float", v |-> h]
JBool(b) == [k |-> "bool", v |-> b]
Null    == [k |-> "null", v |-> 0]
JObj(f)  == [k |-> "obj", v |-> f]
JArr(s)  == [k |-> "arr", v |-> s]

EmptyMap == [x \in {} |-> Null]
EmptyObj == JObj(EmptyMap)

(***************************************************************************)
(* Python semantics used by the source.                                    *)
(***************************************************************************)

\* isinstance(x, basestring)
IsBasestring(x) == x.k = "str"

\* isinstance(x, int): bool is a subclass of int in Python
IsInt(x) == x.k \in {"int", "bool"}

\* isinstance(x, NUMERIC_TYPES), NUMERIC_TYPES = (int, float, decimal.Decimal)
IsNumeric(x) == x.k \in {"int", "bool", "float"}

IsDict(x) == x.k = "obj"

IsList(x) == x.k = "arr"

\* x is None
IsNone(x) == x.k = "null"

\* x is True / x is False
IsTrue(x) == x.k = "bool" /\ x.v = TRUE

IsFalse(x) == x.k = "bool" /\ x.v = FALSE

\* the numeric value of an int, bool or float, in halves
NumVal(x) ==
  CASE x.k = "int" -> 2 * x.v
    [] x.k = "bool" -> (IF x.v THEN 2 ELSE 0)
    [] x.k = "float" -> x.v

RECURSIVE PyEq(_, _)
\* Python's == on parsed JSON values
PyEq(a, b) ==
  IF IsNumeric(a) /\ IsNumeric(b) THEN NumVal(a) = NumVal(b)
  ELSE IF a.k # b.k THEN FALSE
  ELSE CASE a.k = "str" -> a.v = b.v
         [] a.k = "null" -> TRUE
         [] a.k = "obj" -> /\ DOMAIN a.v = DOMAIN b.v
                           /\ \A key \in DOMAIN a.v : PyEq(a.v[key], b.v[key])
         [] a.k = "arr" -> /\ Len(a.v) = Len(b.v)
                           /\ \A i \in 1..Len(a.v) : PyEq(a.v[i], b.v[i])

\* hash(x) raises TypeError for dict and list
Unhashable(x) == x.k \in {"obj", "arr"}

(***************************************************************************)
(* Results of accessors: a value or a raised exception.                    *)
(***************************************************************************)
Ok(val) == [err |-> "none", val |-> val]

Raise(exc) == [err |-> exc, val |-> Null]

\* dict.get(key, default) on the raw schema mapping
Get(schema, key, default) ==
  IF key \in DOMAIN schema.v THEN schema.v[key] ELSE default

\* Schema.__init__
SchemaInit(json_obj) ==
  IF ~IsDict(json_obj) THEN Raise("SchemaError") ELSE Ok(json_obj)

SimpleTypeNames ==
  {"string", "number", "integer", "boolean", "object", "array", "null", "any"}

RECURSIVE TypeListCheck(_, _)
\* the loop of Schema.type / Schema.disallow over the list, from index i
TypeListCheck(type_list, i) ==
  IF i > Len(type_list) THEN "none"
  ELSE LET js_type == type_list[i] IN
       IF IsDict(js_type) THEN TypeListCheck(type_list, i + 1)
       ELSE IF Unhashable(js_type) THEN "TypeError"
       ELSE IF \E j \in 1..(i - 1) :
                 ~IsDict(type_list[j]) /\ PyEq(type_list[j], js_type)
            THEN "SchemaError"
       ELSE IF ~(IsBasestring(js_type) /\ js_type.v \in SimpleTypeNames)
            THEN "SchemaError"
       ELSE TypeListCheck(type_list, i + 1)

\* Schema.type
SchemaType(schema) ==
  LET value == Get(schema, "type", JStr("any")) IN
  IF ~(IsBasestring(value) \/ IsDict(value) \/ IsList(value))
  THEN Raise("SchemaError")
  ELSE LET type_list == IF IsList(value) THEN value.v ELSE <<value>>
           chk == TypeListCheck(type_list, 1)
       IN IF chk # "none" THEN Raise(chk) ELSE Ok(type_list)

\* Schema.properties
SchemaProperties(schema) ==
  LET value == Get(schema, "properties", EmptyObj) IN
  IF ~IsDict(value) THEN Raise("SchemaError") ELSE Ok(value)

\* Schema.items
SchemaItems(schema) ==
  LET value == Get(schema, "items", EmptyObj) IN
  IF ~(IsList(value) \/ IsDict(value)) THEN Raise("SchemaError") ELSE Ok(value)

\* Schema.optional with the default the other way round
SchemaOptional_DefaultTrue(schema) ==
  LET value == Get(schema, "optional", JBool(TRUE)) IN
  IF ~IsFalse(value) /\ ~IsTrue(value) THEN Raise("SchemaError") ELSE Ok(value)

\* Schema.optional
SchemaOptional(schema) ==
  LET value == Get(schema, "optional", JBool(FALSE)) IN
  IF ~IsFalse(value) /\ ~IsTrue(value) THEN Raise("SchemaError") ELSE Ok(value)

\* Schema.additionalProperties
SchemaAdditionalProperties(schema) ==
  LET value == Get(schema, "additionalProperties", EmptyObj) IN
  IF ~IsDict(value) /\ ~IsFalse(value) THEN Raise("SchemaError") ELSE Ok(value)

\* Schema.requires
SchemaRequires(schema) ==
  LET value == Get(schema, "requires", EmptyObj) IN
  IF ~(IsBasestring(value) \/ IsDict(value)) THEN Raise("SchemaError")
  ELSE Ok(value)

\* Schema.minimum
SchemaMinimum(schema) ==
  LET value == Get(schema, "minimum", Null) IN
  IF IsNone(value) THEN Ok(Null)
  ELSE IF ~IsNumeric(value) THEN Raise("SchemaError") ELSE Ok(value)

\* Schema.maximum
SchemaMaximum(schema) ==
  LET value == Get(schema, "maximum", Null) IN
  IF IsNone(value) THEN Ok(Null)
  ELSE IF ~IsNumeric(value) THEN Raise("SchemaError") ELSE Ok(value)

\* Schema.minItems
SchemaMinItems(schema) ==
  LET value == Get(schema, "minItems", JInt(0)) IN
  IF ~IsInt(value) THEN Raise("SchemaError")
  ELSE IF NumVal(value) < 0 THEN Raise("SchemaError") ELSE Ok(value)

\* Schema.maxItems
SchemaMaxItems(schema) ==
  LET value == Get(schema, "maxItems", Null) IN
  IF IsNone(value) THEN Ok(Null)
  ELSE IF ~IsInt(value) THEN Raise("SchemaError") ELSE Ok(value)

\* Schema.uniqueItems
SchemaUniqueItems(schema) ==
  LET value == Get(schema, "uniqueItems", JBool(FALSE)) IN
  IF ~IsTrue(value) /\ ~IsFalse(value) THEN Raise("SchemaError") ELSE Ok(value)

\* the pattern strings re.compile rejects
InvalidPatterns == {"("}

\* Schema.pattern
SchemaPattern(schema) ==
  LET value == Get(schema, "pattern", Null) IN
  IF IsNone(value) THEN Ok(Null)
  ELSE IF ~IsBasestring(value) THEN Raise("TypeError")
  ELSE IF value.v \in InvalidPatterns THEN Raise("SchemaError") ELSE Ok(value)

\* Schema.minLength
SchemaMinLength(schema) ==
  LET value == Get(schema, "minLength", JInt(0)) IN
  IF ~IsInt(value) THEN Raise("SchemaError")
  ELSE IF NumVal(value) < 0 THEN Raise("SchemaError") ELSE Ok(value)

\* Schema.maxLength
SchemaMaxLength(schema) ==
  LET value == Get(schema, "maxLength", Null) IN
  IF IsNone(value) THEN Ok(Null)
  ELSE IF ~IsInt(value) THEN Raise("SchemaError") ELSE Ok(value)

RECURSIVE EnumCheck(_, _)
\* the duplicate loop of Schema.enum over the list, from index i
EnumCheck(value, i) ==
  IF i > Len(value) THEN "none"
  ELSE IF Unhashable(value[i]) THEN "TypeError"
  ELSE IF \E j \in 1..(i - 1) : PyEq(value[j], value[i]) THEN "SchemaError"
  ELSE EnumCheck(value, i + 1)

\* Schema.enum
SchemaEnum(schema) ==
  LET value == Get(schema, "enum", Null) IN
  IF IsNone(value) THEN Ok(Null)
  ELSE IF ~IsList(value) THEN Raise("SchemaError")
  ELSE IF Len(value.v) = 0 THEN Raise("SchemaError")
  ELSE LET chk == EnumCheck(value.v, 1) IN
       IF chk # "none" THEN Raise(chk) ELSE Ok(value)

\* Schema.format
SchemaFormat(schema) ==
  LET value == Get(schema, "format", Null) IN
  IF IsNone(value) THEN Ok(Null)
  ELSE IF ~IsBasestring(value) THEN Raise("SchemaError")
  ELSE IF value.v \in {"date-time"} THEN Ok(value)
  ELSE Raise("NotImplementedError")

ContentEncodings ==
  {"7bit", "8bit", "binary", "quoted-printable", "base64", "ietf-token",
   "x-token"}

\* Schema.contentEncoding (the strings of the model are lower case)
SchemaContentEncoding(schema) ==
  LET value == Get(schema, "contentEncoding", Null) IN
  IF IsNone(value) THEN Ok(Null)
  ELSE IF ~IsBasestring(value) THEN Raise("AttributeError")
  ELSE IF value.v \notin ContentEncodings THEN Raise("SchemaError")
  ELSE IF value.v # "base64" THEN Raise("NotImplementedError")
  ELSE Ok(value)

\* Schema.divisibleBy
SchemaDivisibleBy(schema) ==
  LET value == Get(schema, "divisibleBy", JInt(1)) IN
  IF IsNone(value) THEN Ok(Null)
  ELSE IF ~IsNumeric(value) THEN Raise("SchemaError")
  ELSE IF NumVal(value) < 0 THEN Raise("SchemaError") ELSE Ok(value)

\* Schema.disallow
SchemaDisallow(schema) ==
  LET value == Get(schema, "disallow", Null) IN
  IF IsNone(value) THEN Ok(Null)
  ELSE IF ~(IsBasestring(value) \/ IsDict(value) \/ IsList(value))
  THEN Raise("SchemaError")
  ELSE LET disallow_list == IF IsList(value) THEN value.v ELSE <<value>>
           chk == TypeListCheck(disallow_list, 1)
       IN IF chk # "none" THEN Raise(chk) ELSE Ok(JArr(disallow_list))

\* Schema.extends: the property raises whenever it is read
SchemaExtends(schema) == Raise("NotImplementedError")

(***************************************************************************)
(* The state of one Validator.validate call.                               *)
(***************************************************************************)
VARIABLES
  schema,      \* the value handed to Schema(...) by validate
  obj,         \* the document
  hashOrder,   \* the order in which dicts iterate their keys
  pc,          \* position in validate / the root _validate_no_push
  obj_stack,   \* Validator._obj_stack of the validator made by validate
  calls,       \* history: the _validate_no_push calls that have ended
  step,        \* history: the statement of the root call executed last
  outcome,     \* "none" while running, "ok" (returned True) or the exception
  heap,        \* concurrent calls: the _obj_stack of every Validator made
  threads      \* concurrent calls: every caller's chain of activations

vars ==
  <<schema, obj, hashOrder, pc, obj_stack, calls, step, outcome, heap,
    threads>>

\* dict.iterkeys(): the keys of mapping d in iteration order
IterKeys(d) == SelectSeq(hashOrder, LAMBDA key : key \in DOMAIN d)

\* a Validator: its _obj_stack, and the history of ended calls
NewValidator(stack, history) == [obj_stack |-> stack, calls |-> history]

\* the result of a validation step: how it ended and the validator it left
Res(out, self) == [out |-> out, self |-> self]

\* list.append / list.pop on self._obj_stack
Push(self, o) == [self EXCEPT !.obj_stack = Append(@, o)]

Pop(self) ==
  [self EXCEPT !.obj_stack = SubSeq(@, 1, Len(@) - 1)]

\* history entry of one ended _validate_no_push call
Call(s, o, enter, out, exit) ==
  [schema |-> s, obj |-> o, enter |-> enter, out |-> out, exit |-> exit]

\* Validator.JSON_TYPE_MAP, as the kinds isinstance accepts
JSON_TYPE_MAP ==
  [string  |-> {"str"},
   number  |-> {"int", "bool", "float"},
   integer |-> {"int", "bool"},
   object  |-> {"obj"},
   array   |-> {"arr"},
   null    |-> {"null"}]

\* one accessor test of _report_unsupported followed by the rest
Gate(acc, unsupported, rest) ==
  IF acc.err # "none" THEN acc.err
  ELSE IF unsupported THEN "NotImplementedError"
  ELSE rest

\* _report_unsupported without the minItems gate
ReportUnsupported_NoMinItems(s) ==
  Gate(SchemaMinimum(s), ~IsNone(SchemaMinimum(s).val),
  Gate(SchemaMaximum(s), ~IsNone(SchemaMaximum(s).val),
  Gate(SchemaMinItems(s), FALSE,
  Gate(SchemaMaxItems(s), ~IsNone(SchemaMaxItems(s).val),
  Gate(SchemaUniqueItems(s), ~PyEq(SchemaUniqueItems(s).val, JBool(FALSE)),
  Gate(SchemaPattern(s), ~IsNone(SchemaPattern(s).val),
  Gate(SchemaMinLength(s), ~PyEq(SchemaMinLength(s).val, JInt(0)),
  Gate(SchemaMaxLength(s), ~IsNone(SchemaMaxLength(s).val),
  Gate(SchemaFormat(s), ~IsNone(SchemaFormat(s).val),
  Gate(SchemaContentEncoding(s), ~IsNone(SchemaContentEncoding(s).val),
  Gate(SchemaDivisibleBy(s), ~PyEq(SchemaDivisibleBy(s).val, JInt(1)),
  Gate(SchemaDisallow(s), ~IsNone(SchemaDisallow(s).val),
  "ok"))))))))))))

\* _report_unsupported without the divisibleBy gate
ReportUnsupported_NoDivisibleBy(s) ==
  Gate(SchemaMinimum(s), ~IsNone(SchemaMinimum(s).val),
  Gate(SchemaMaximum(s), ~IsNone(SchemaMaximum(s).val),
  Gate(SchemaMinItems(s), ~PyEq(SchemaMinItems(s).val, JInt(0)),
  Gate(SchemaMaxItems(s), ~IsNone(SchemaMaxItems(s).val),
  Gate(SchemaUniqueItems(s), ~PyEq(SchemaUniqueItems(s).val, JBool(FALSE)),
  Gate(SchemaPattern(s), ~IsNone(SchemaPattern(s).val),
  Gate(SchemaMinLength(s), ~PyEq(SchemaMinLength(s).val, JInt(0)),
  Gate(SchemaMaxLength(s), ~IsNone(SchemaMaxLength(s).val),
  Gate(SchemaFormat(s), ~IsNone(SchemaFormat(s).val),
  Gate(SchemaContentEncoding(s), ~IsNone(SchemaContentEncoding(s).val),
  Gate(SchemaDivisibleBy(s), FALSE,
  Gate(SchemaDisallow(s), ~IsNone(SchemaDisallow(s).val),
  "ok"))))))))))))

\* Validator._report_unsupported: "ok" or the exception raised
ReportUnsupported(s) ==
  Gate(SchemaMinimum(s), ~IsNone(SchemaMinimum(s).val),
  Gate(SchemaMaximum(s), ~IsNone(SchemaMaximum(s).val),
  Gate(SchemaMinItems(s), ~PyEq(SchemaMinItems(s).val, JInt(0)),
  Gate(SchemaMaxItems(s), ~IsNone(SchemaMaxItems(s).val),
  Gate(SchemaUniqueItems(s), ~PyEq(SchemaUniqueItems(s).val, JBool(FALSE)),
  Gate(SchemaPattern(s), ~IsNone(SchemaPattern(s).val),
  Gate(SchemaMinLength(s), ~PyEq(SchemaMinLength(s).val, JInt(0)),
  Gate(SchemaMaxLength(s), ~IsNone(SchemaMaxLength(s).val),
  Gate(SchemaFormat(s), ~IsNone(SchemaFormat(s).val),
  Gate(SchemaContentEncoding(s), ~IsNone(SchemaContentEncoding(s).val),
  Gate(SchemaDivisibleBy(s), ~PyEq(SchemaDivisibleBy(s).val, JInt(1)),
  Gate(SchemaDisallow(s), ~IsNone(SchemaDisallow(s).val),
  "ok"))))))))))))

\* Validator._validate_enum
ValidateEnum(s, o, self) ==
  LET e == SchemaEnum(s) IN
  IF e.err # "none" THEN Res(e.err, self)
  ELSE IF IsNone(e.val) THEN Res("ok", self)
  ELSE IF \E i \in 1..Len(e.val.v) : PyEq(o, e.val.v[i]) THEN Res("ok", self)
  ELSE Res("ValidationError", self)

\* sequencing of statements: an exception in step r ends the method, otherwise
\* the rest K runs on the validator that r left
Bind(r, K(_)) == IF r.out # "ok" THEN r ELSE K(r.self)

\* the finally clause of _validate: pop whatever the outcome
PopAfter(r) == Res(r.out, Pop(r.self))

\* self._obj_stack.pop() after a step that raised nothing
PopIfOk(r) == IF r.out = "ok" THEN Res("ok", Pop(r.self)) ELSE r

RECURSIVE ValidateNoPush(_, _, _)
RECURSIVE TypeLoop(_, _, _, _)
RECURSIVE PropertiesLoop(_, _, _, _, _)
RECURSIVE AdditionalLoop(_, _, _, _, _)
RECURSIVE ItemsLoop(_, _, _, _)
RECURSIVE TupleLoop(_, _, _, _, _)

\* _validate without the push and the pop
Validate_NoPush(s, o, self) == ValidateNoPush(s, o, self)

\* Validator._validate: push, validate, pop in the finally clause
Validate(s, o, self) == PopAfter(ValidateNoPush(s, o, Push(self, o)))

\* the for loop of _validate_type over schema.type, from index i
TypeLoop(type_list, i, o, self) ==
  IF i > Len(type_list)
  THEN \* the else clause; json_type is unbound when the list is empty
       IF Len(type_list) = 0 THEN Res("UnboundLocalError", self)
       ELSE Res("ValidationError", self)
  ELSE LET json_type == type_list[i] IN
       IF PyEq(json_type, JStr("any")) THEN Res("ok", self)
       ELSE IF PyEq(json_type, JStr("boolean"))
       THEN IF ~IsTrue(o) /\ ~IsFalse(o) THEN Res("ValidationError", self)
            ELSE Res("ok", self)
       ELSE IF IsDict(json_type) THEN ValidateNoPush(json_type, o, self)
       ELSE IF o.k \in JSON_TYPE_MAP[json_type.v] THEN Res("ok", self)
       ELSE TypeLoop(type_list, i + 1, o, self)

\* Validator._validate_type
ValidateType(s, o, self) ==
  LET t == SchemaType(s) IN
  IF t.err # "none" THEN Res(t.err, self)
  ELSE TypeLoop(t.val, 1, o, self)

\* the sub-validator has ended with sub: its exception, if any, leaves
\* _validate_requires; the caller's own stack is untouched
AfterSubValidator(sub, self) ==
  Res(sub.out, [self EXCEPT !.calls = sub.self.calls])

\* _validate_requires taking the top of the stack for the parent
ValidateRequires_TopAsParent(s, o, self) ==
  LET r == SchemaRequires(s)
      stack == self.obj_stack
  IN
  IF r.err # "none" THEN Res(r.err, self)
  ELSE LET requires_json == r.val IN
  IF PyEq(requires_json, EmptyObj) THEN Res("ok", self)
  ELSE IF Len(stack) < 2 THEN Res("ValidationError", self)
  ELSE LET parent_obj == stack[Len(stack)] IN
  IF IsBasestring(requires_json)
  THEN IF ~IsDict(parent_obj) \/ requires_json.v \notin DOMAIN parent_obj.v
       THEN Res("ValidationError", self)
       ELSE Res("ok", self)
  ELSE \* a nested schema: a new Validator on a truncated copy of the stack
       AfterSubValidator(
         ValidateNoPush(requires_json, parent_obj,
           NewValidator(SubSeq(stack, 1, Len(stack) - 2), self.calls)),
         self)

\* _validate_requires handing the sub-validator the stack without its top only
ValidateRequires_KeepsParent(s, o, self) ==
  LET r == SchemaRequires(s)
      stack == self.obj_stack
  IN
  IF r.err # "none" THEN Res(r.err, self)
  ELSE LET requires_json == r.val IN
  IF PyEq(requires_json, EmptyObj) THEN Res("ok", self)
  ELSE IF Len(stack) < 2 THEN Res("ValidationError", self)
  ELSE LET parent_obj == stack[Len(stack) - 1] IN
  IF IsBasestring(requires_json)
  THEN IF ~IsDict(parent_obj) \/ requires_json.v \notin DOMAIN parent_obj.v
       THEN Res("ValidationError", self)
       ELSE Res("ok", self)
  ELSE \* a nested schema: a new Validator on a truncated copy of the stack
       AfterSubValidator(
         ValidateNoPush(requires_json, parent_obj,
           NewValidator(SubSeq(stack, 1, Len(stack) - 1), self.calls)),
         self)

\* Validator._validate_requires
ValidateRequires(s, o, self) ==
  LET r == SchemaRequires(s)
      stack == self.obj_stack
  IN
  IF r.err # "none" THEN Res(r.err, self)
  ELSE LET requires_json == r.val IN
  IF PyEq(requires_json, EmptyObj) THEN Res("ok", self)
  ELSE IF Len(stack) < 2 THEN Res("ValidationError", self)
  ELSE LET parent_obj == stack[Len(stack) - 1] IN
  IF IsBasestring(requires_json)
  THEN IF ~IsDict(parent_obj) \/ requires_json.v \notin DOMAIN parent_obj.v
       THEN Res("ValidationError", self)
       ELSE Res("ok", self)
  ELSE \* a nested schema: a new Validator on a truncated copy of the stack
       AfterSubValidator(
         ValidateNoPush(requires_json, parent_obj,
           NewValidator(SubSeq(stack, 1, Len(stack) - 2), self.calls)),
         self)

\* the for loop of _validate_properties over schema.properties.iteritems()
PropertiesLoop(keys, i, props, o, self) ==
  IF i > Len(keys) THEN Res("ok", self)
  ELSE LET prop == keys[i]
           prop_schema == SchemaInit(props[prop])
           opt == SchemaOptional(prop_schema.val)
       IN
       IF prop_schema.err # "none" THEN Res(prop_schema.err, self)
       ELSE IF prop \in DOMAIN o.v
       THEN Bind(Validate(prop_schema.val, o.v[prop], self),
                 LAMBDA v : PropertiesLoop(keys, i + 1, props, o, v))
       ELSE IF opt.err # "none" THEN Res(opt.err, self)
       ELSE IF ~IsTrue(opt.val) THEN Res("ValidationError", self)
       ELSE PropertiesLoop(keys, i + 1, props, o, self)

\* Validator._validate_properties
ValidateProperties(s, o, self) ==
  LET p == SchemaProperties(s) IN
  IF p.err # "none" THEN Res(p.err, self)
  ELSE PropertiesLoop(IterKeys(p.val.v), 1, p.val.v, o, self)

\* the for loop of _validate_additional_properties over obj.itervalues()
AdditionalLoop(keys, i, additional_schema, o, self) ==
  IF i > Len(keys) THEN Res("ok", self)
  ELSE Bind(Validate(additional_schema, o.v[keys[i]], self),
            LAMBDA v : AdditionalLoop(keys, i + 1, additional_schema, o, v))

\* _validate_additional_properties without the test for undeclared keys
ValidateAdditionalProperties_NoKeyTest(s, o, self) ==
  LET a == SchemaAdditionalProperties(s)
      p == SchemaProperties(s)
  IN
  IF a.err # "none" THEN Res(a.err, self)
  ELSE IF IsFalse(a.val)
  THEN IF DOMAIN o.v = {} THEN Res("ok", self)
       ELSE IF p.err # "none" THEN Res(p.err, self)
       ELSE Res("ok", self)
  ELSE AdditionalLoop(IterKeys(o.v), 1, a.val, o, self)

\* Validator._validate_additional_properties
ValidateAdditionalProperties(s, o, self) ==
  LET a == SchemaAdditionalProperties(s)
      p == SchemaProperties(s)
  IN
  IF a.err # "none" THEN Res(a.err, self)
  ELSE IF IsFalse(a.val)
  THEN IF DOMAIN o.v = {} THEN Res("ok", self)
       ELSE IF p.err # "none" THEN Res(p.err, self)
       ELSE IF \E prop \in DOMAIN o.v : prop \notin DOMAIN p.val.v
       THEN Res("ValidationError", self)
       ELSE Res("ok", self)
  ELSE AdditionalLoop(IterKeys(o.v), 1, a.val, o, self)

\* the for loop of _validate_items for a single items schema, from index i
ItemsLoop(items_schema, i, o, self) ==
  IF i > Len(o.v) THEN Res("ok", self)
  ELSE Bind(Validate(items_schema, o.v[i], self),
            LAMBDA v : ItemsLoop(items_schema, i + 1, o, v))

\* the for loop of _validate_items over izip_longest(obj, items, fillvalue)
TupleLoop(items, fill, i, o, self) ==
  IF i > Len(o.v) THEN Res("ok", self)
  ELSE LET item_schema_json == IF i <= Len(items) THEN items[i] ELSE fill
           item_schema == SchemaInit(item_schema_json)
       IN
       IF item_schema.err # "none" THEN Res(item_schema.err, self)
       ELSE Bind(Validate(item_schema.val, o.v[i], self),
                 LAMBDA v : TupleLoop(items, fill, i + 1, o, v))

\* _validate_items without the test for a document array that is too short
ValidateItems_NoShortTest(s, o, self) ==
  LET it == SchemaItems(s)
      items_schema_json == it.val
      a == SchemaAdditionalProperties(s)
  IN
  IF it.err # "none" THEN Res(it.err, self)
  ELSE IF PyEq(items_schema_json, EmptyObj) THEN Res("ok", self)
  ELSE IF IsDict(items_schema_json)
  THEN ItemsLoop(items_schema_json, 1, o, self)
  ELSE IF Len(o.v) # Len(items_schema_json.v) /\ a.err # "none"
  THEN Res(a.err, self)
  ELSE IF Len(o.v) # Len(items_schema_json.v) /\ IsFalse(a.val)
  THEN Res("ValidationError", self)
  ELSE IF a.err # "none" THEN Res(a.err, self)
  ELSE TupleLoop(items_schema_json.v, a.val, 1, o, self)

\* Validator._validate_items
ValidateItems(s, o, self) ==
  LET it == SchemaItems(s)
      items_schema_json == it.val
      a == SchemaAdditionalProperties(s)
  IN
  IF it.err # "none" THEN Res(it.err, self)
  ELSE IF PyEq(items_schema_json, EmptyObj) THEN Res("ok", self)
  ELSE IF IsDict(items_schema_json)
  THEN ItemsLoop(items_schema_json, 1, o, self)
  ELSE IF Len(o.v) < Len(items_schema_json.v) THEN Res("ValidationError", self)
  ELSE IF Len(o.v) # Len(items_schema_json.v) /\ a.err # "none"
  THEN Res(a.err, self)
  ELSE IF Len(o.v) # Len(items_schema_json.v) /\ IsFalse(a.val)
  THEN Res("ValidationError", self)
  ELSE IF a.err # "none" THEN Res(a.err, self)
  ELSE TupleLoop(items_schema_json.v, a.val, 1, o, self)

\* the structural descent without the push and pop of the container
Descend_NoPush(s, o, self) ==
  IF IsDict(o)
  THEN Bind(ValidateProperties(s, o, self),
            LAMBDA v : ValidateAdditionalProperties(s, o, v))
  ELSE IF IsList(o)
  THEN ValidateItems(s, o, self)
  ELSE ValidateEnum(s, o, self)

\* the structural descent of _validate_no_push
Descend(s, o, self) ==
  IF IsDict(o)
  THEN Bind(ValidateProperties(s, o, Push(self, o)),
            LAMBDA v : PopIfOk(ValidateAdditionalProperties(s, o, v)))
  ELSE IF IsList(o)
  THEN PopIfOk(ValidateItems(s, o, Push(self, o)))
  ELSE ValidateEnum(s, o, self)

\* the statements of _validate_no_push, in order
NoPushBody(s, o, self) ==
  Bind(ValidateType(s, o, self),
       LAMBDA v : Bind(ValidateRequires(s, o, v),
       LAMBDA w : Bind(Descend(s, o, w),
       LAMBDA x : Res(ReportUnsupported(s), x))))

\* the call that entered with validator self has ended with r: record it
Ended(s, o, self, r) ==
  Res(r.out,
      [r.self EXCEPT !.calls =
         Append(@, Call(s, o, self.obj_stack, r.out, r.self.obj_stack))])

\* Validator._validate_no_push, recording the ended call in the history
ValidateNoPush(s, o, self) == Ended(s, o, self, NoPushBody(s, o, self))

(***************************************************************************)
(* Concurrent validate calls, step by step.  Every Validator object is a   *)
(* cell of the heap holding its _obj_stack; every caller has the chain of  *)
(* its method activations.                                                 *)
(***************************************************************************)
\* the two callers whose validate calls interleave
Callers == {1, 2}

\* every Validator shares one _obj_stack, as a class attribute would be
NewValidatorCell_Shared(h) == 1

\* Validator.__init__: the cell that holds the _obj_stack of a new Validator
NewValidatorCell(h) == Len(h) + 1

\* self._obj_stack = stack on the Validator in cell
SetStack(h, cell, stack) ==
  IF cell > Len(h) THEN Append(h, stack) ELSE [h EXCEPT ![cell] = stack]

\* an activation of _validate_no_push (m = "no_push") or _validate
\* (m = "validate") on the Validator in cell self, at statement at, loop index i
Frame(m, self, s, o, at) ==
  [m |-> m, self |-> self, schema |-> s, obj |-> o, at |-> at, i |-> 1]

\* a caller that has not called validate yet
Idle ==
  [status |-> "idle", frames |-> <<>>, exc |-> "none", out |-> "none",
   mine |-> {}]

\* a caller that never calls validate
Absent == [Idle EXCEPT !.status = "absent"]

\* no caller has called validate, and no Validator has been made
NoCallers == heap = <<>> /\ threads = [t \in Callers |-> Idle]

\* what one statement does to its caller and to the heap
Effect(th, h) == [th |-> th, heap |-> h]

\* the activation a caller is executing
Top(th) == th.frames[Len(th.frames)]

\* the executing activation moves to statement at with loop index i
Goto(th, at, i) ==
  [th EXCEPT !.frames[Len(th.frames)].at = at,
             !.frames[Len(th.frames)].i = i]

\* a method is called: its activation goes on top of the chain
Enter(th, f) == [th EXCEPT !.frames = Append(@, f)]

\* the executing activation ends
Leave(th) == [th EXCEPT !.frames = SubSeq(@, 1, Len(@) - 1)]

\* raise exc
Throw(th, exc) == [th EXCEPT !.exc = exc]

\* self._obj_stack.append(o) / self._obj_stack.pop() on the Validator in cell
StackPush(h, cell, o) == [h EXCEPT ![cell] = Append(@, o)]

StackPop(h, cell) == [h EXCEPT ![cell] = SubSeq(@, 1, Len(@) - 1)]

\* validate(schema_text, data_text): Schema(...), then Validator.validate
\* makes a Validator and calls _validate_no_push on it
BeginStep(th, h) ==
  IF SchemaInit(schema).err # "none"
  THEN Effect([th EXCEPT !.status = "done", !.out = SchemaInit(schema).err], h)
  ELSE Effect([th EXCEPT !.status = "running",
                         !.mine = {NewValidatorCell(h)},
                         !.frames = <<Frame("no_push", NewValidatorCell(h),
                                            schema, obj, "type")>>],
              SetStack(h, NewValidatorCell(h), <<>>))

\* one iteration of the for loop of _validate_type, or its else clause
TypeStep(th, h) ==
  LET f == Top(th)
      t == SchemaType(f.schema)
  IN
  IF t.err # "none" THEN Effect(Throw(th, t.err), h)
  ELSE IF f.i > Len(t.val)
  THEN Effect(Throw(th, IF Len(t.val) = 0 THEN "UnboundLocalError"
                        ELSE "ValidationError"), h)
  ELSE LET json_type == t.val[f.i] IN
       IF PyEq(json_type, JStr("any")) THEN Effect(Goto(th, "requires", 1), h)
       ELSE IF PyEq(json_type, JStr("boolean"))
       THEN IF ~IsTrue(f.obj) /\ ~IsFalse(f.obj)
            THEN Effect(Throw(th, "ValidationError"), h)
            ELSE Effect(Goto(th, "requires", 1), h)
       ELSE IF IsDict(json_type)
       THEN Effect(Enter(Goto(th, "requires", 1),
                         Frame("no_push", f.self, json_type, f.obj, "type")), h)
       ELSE IF f.obj.k \in JSON_TYPE_MAP[json_type.v]
       THEN Effect(Goto(th, "requires", 1), h)
       ELSE Effect(Goto(th, "type", f.i + 1), h)

\* _validate_requires; a nested schema starts a sub-validator
RequiresStep(th, h) ==
  LET f == Top(th)
      r == SchemaRequires(f.schema)
      stack == h[f.self]
  IN
  IF r.err # "none" THEN Effect(Throw(th, r.err), h)
  ELSE LET requires_json == r.val IN
  IF PyEq(requires_json, EmptyObj) THEN Effect(Goto(th, "descend", 1), h)
  ELSE IF Len(stack) < 2 THEN Effect(Throw(th, "ValidationError"), h)
  ELSE LET parent_obj == stack[Len(stack) - 1] IN
  IF IsBasestring(requires_json)
  THEN IF ~IsDict(parent_obj) \/ requires_json.v \notin DOMAIN parent_obj.v
       THEN Effect(Throw(th, "ValidationError"), h)
       ELSE Effect(Goto(th, "descend", 1), h)
  ELSE Effect(Enter([Goto(th, "descend", 1) EXCEPT
                       !.mine = @ \cup {NewValidatorCell(h)}],
                    Frame("no_push", NewValidatorCell(h), requires_json,
                          parent_obj, "type")),
              SetStack(h, NewValidatorCell(h),
                       SubSeq(stack, 1, Len(stack) - 2)))

\* the branch of _validate_no_push on the kind of the node, with its push
DescendStep(th, h) ==
  LET f == Top(th) IN
  IF IsDict(f.obj)
  THEN Effect(Goto(th, "properties", 1), StackPush(h, f.self, f.obj))
  ELSE IF IsList(f.obj)
  THEN Effect(Goto(th, "items", 1), StackPush(h, f.self, f.obj))
  ELSE Effect(Goto(th, "enum", 1), h)

\* one iteration of the for loop of _validate_properties
PropertiesStep(th, h) ==
  LET f == Top(th)
      p == SchemaProperties(f.schema)
  IN
  IF p.err # "none" THEN Effect(Throw(th, p.err), h)
  ELSE IF f.i > Len(IterKeys(p.val.v))
  THEN Effect(Goto(th, "additional", 1), h)
  ELSE LET prop == IterKeys(p.val.v)[f.i]
           prop_schema == SchemaInit(p.val.v[prop])
           opt == SchemaOptional(prop_schema.val)
       IN
       IF prop_schema.err # "none" THEN Effect(Throw(th, prop_schema.err), h)
       ELSE IF prop \in DOMAIN f.obj.v
       THEN Effect(Enter(Goto(th, "properties", f.i + 1),
                         Frame("validate", f.self, prop_schema.val,
                               f.obj.v[prop], "push")), h)
       ELSE IF opt.err # "none" THEN Effect(Throw(th, opt.err), h)
       ELSE IF ~IsTrue(opt.val) THEN Effect(Throw(th, "ValidationError"), h)
       ELSE Effect(Goto(th, "properties", f.i + 1), h)

\* _validate_additional_properties with a loop that stays on the same value
AdditionalStep_SameValue(th, h) ==
  LET f == Top(th)
      a == SchemaAdditionalProperties(f.schema)
      p == SchemaProperties(f.schema)
  IN
  IF a.err # "none" THEN Effect(Throw(th, a.err), h)
  ELSE IF IsFalse(a.val)
  THEN IF DOMAIN f.obj.v = {} THEN Effect(Goto(th, "pop", 1), h)
       ELSE IF p.err # "none" THEN Effect(Throw(th, p.err), h)
       ELSE IF \E prop \in DOMAIN f.obj.v : prop \notin DOMAIN p.val.v
       THEN Effect(Throw(th, "ValidationError"), h)
       ELSE Effect(Goto(th, "pop", 1), h)
  ELSE IF f.i > Len(IterKeys(f.obj.v)) THEN Effect(Goto(th, "pop", 1), h)
  ELSE Effect(Enter(Goto(th, "additional", f.i),
                    Frame("validate", f.self, a.val,
                          f.obj.v[IterKeys(f.obj.v)[f.i]], "push")), h)

\* _validate_additional_properties: the test for unknown properties, or one
\* iteration of the loop over the values
AdditionalStep(th, h) ==
  LET f == Top(th)
      a == SchemaAdditionalProperties(f.schema)
      p == SchemaProperties(f.schema)
  IN
  IF a.err # "none" THEN Effect(Throw(th, a.err), h)
  ELSE IF IsFalse(a.val)
  THEN IF DOMAIN f.obj.v = {} THEN Effect(Goto(th, "pop", 1), h)
       ELSE IF p.err # "none" THEN Effect(Throw(th, p.err), h)
       ELSE IF \E prop \in DOMAIN f.obj.v : prop \notin DOMAIN p.val.v
       THEN Effect(Throw(th, "ValidationError"), h)
       ELSE Effect(Goto(th, "pop", 1), h)
  ELSE IF f.i > Len(IterKeys(f.obj.v)) THEN Effect(Goto(th, "pop", 1), h)
  ELSE Effect(Enter(Goto(th, "additional", f.i + 1),
                    Frame("validate", f.self, a.val,
                          f.obj.v[IterKeys(f.obj.v)[f.i]], "push")), h)

\* the schema _validate_items pairs with the element at index i
ItemSchemaAt(items_schema_json, fill, i) ==
  IF IsDict(items_schema_json) THEN items_schema_json
  ELSE IF i <= Len(items_schema_json.v) THEN items_schema_json.v[i]
  ELSE fill

\* _validate_items: its tests on the lengths, or one iteration of its loop
ItemsStep(th, h) ==
  LET f == Top(th)
      it == SchemaItems(f.schema)
      a == SchemaAdditionalProperties(f.schema)
      item_schema == SchemaInit(ItemSchemaAt(it.val, a.val, f.i))
  IN
  IF it.err # "none" THEN Effect(Throw(th, it.err), h)
  ELSE IF PyEq(it.val, EmptyObj) THEN Effect(Goto(th, "pop", 1), h)
  ELSE IF IsList(it.val) /\ Len(f.obj.v) < Len(it.val.v)
  THEN Effect(Throw(th, "ValidationError"), h)
  ELSE IF IsList(it.val) /\ a.err # "none" THEN Effect(Throw(th, a.err), h)
  ELSE IF IsList(it.val) /\ Len(f.obj.v) # Len(it.val.v) /\ IsFalse(a.val)
  THEN Effect(Throw(th, "ValidationError"), h)
  ELSE IF f.i > Len(f.obj.v) THEN Effect(Goto(th, "pop", 1), h)
  ELSE IF item_schema.err # "none" THEN Effect(Throw(th, item_schema.err), h)
  ELSE Effect(Enter(Goto(th, "items", f.i + 1),
                    Frame("validate", f.self, item_schema.val, f.obj.v[f.i],
                          "push")), h)

\* self._obj_stack.pop() after the descent into an object or array
PopStep(th, h) ==
  Effect(Goto(th, "unsupported", 1), StackPop(h, Top(th).self))

\* _validate_enum on a scalar node
EnumStep(th, h) ==
  IF ValidateEnum(Top(th).schema, Top(th).obj, NewValidator(<<>>, <<>>)).out
       = "ok"
  THEN Effect(Goto(th, "unsupported", 1), h)
  ELSE Effect(Throw(th, ValidateEnum(Top(th).schema, Top(th).obj,
                                     NewValidator(<<>>, <<>>)).out), h)

\* _report_unsupported, the last statement of _validate_no_push
UnsupportedStep(th, h) ==
  IF ReportUnsupported(Top(th).schema) = "ok" THEN Effect(Leave(th), h)
  ELSE Effect(Throw(th, ReportUnsupported(Top(th).schema)), h)

\* _validate: push the node and call _validate_no_push inside the try
ValidatePushStep(th, h) ==
  LET f == Top(th) IN
  Effect(Enter(Goto(th, "finally", 1),
               Frame("no_push", f.self, f.schema, f.obj, "type")),
         StackPush(h, f.self, f.obj))

\* _validate: the finally clause, reached without an exception
ValidateFinallyStep(th, h) == Effect(Leave(th), StackPop(h, Top(th).self))

\* an exception leaves the executing activation; the finally clause of
\* _validate pops on its way
UnwindStep(th, h) ==
  IF Top(th).m = "validate"
  THEN Effect(Leave(th), StackPop(h, Top(th).self))
  ELSE Effect(Leave(th), h)

\* Validator.validate returns True, or the exception leaves validate
EndStep(th, h) ==
  Effect([th EXCEPT !.status = "done",
                    !.out = IF th.exc = "none" THEN "ok" ELSE th.exc], h)

(***************************************************************************)
(* Bounded inputs.                                                         *)
(***************************************************************************)
MaxInt == 4

MaxArrayLen == 3

MaxTypeAlts == 2

MaxEnumLen == 2

Keys == {"a", "b"}

HashOrders == {<<"a", "b">>, <<"b", "a">>}

SeqsUpTo(S, n) == UNION {[1..m -> S] : m \in 0..n}

\* the schema fragment {key: value}
Frag(key, value) == JObj(key :> value)

\* schema fragment f extended with keyword key (f wins on a clash)
With(f, key, value) == JObj(f.v @@ (key :> value))

\* objects over a subset of Keys with values (or property schemas) from S
MapsOver(S) == UNION {[K -> S] : K \in SUBSET Keys}

ScalarDocs ==
  {JStr("x"), JFlt(2), JFlt(3), JBool(TRUE), JBool(FALSE), Null}
    \cup {JInt(n) : n \in 0..MaxInt}

ElemDocs == {JStr("x"), JInt(1), JBool(TRUE)}

ArrayDocs == {JArr(elems) : elems \in SeqsUpTo(ElemDocs, MaxArrayLen)}

ValueDocs == {JStr("x"), JInt(1), JInt(2)}

ObjectDocs == {JObj(f) : f \in MapsOver(ValueDocs)}

InnerDocs ==
  {JObj("a" :> JInt(1)), JObj(("a" :> JInt(1)) @@ ("b" :> JInt(2))),
   JArr(<<JInt(1)>>), JArr(<<JStr("x"), JInt(1)>>)}

NestedDocs ==
  {JObj("a" :> d) : d \in InnerDocs} \cup {JArr(<<d>>) : d \in InnerDocs}

SmallDocs == {EmptyObj, JObj("a" :> JInt(1)), JArr(<<>>), JArr(<<JInt(1)>>)}

TypeAlts ==
  {JStr(n) : n \in {"string", "number", "integer", "boolean", "null",
                    "object", "any"}}
    \cup {Frag("type", JStr("number")), Frag("type", JStr("string"))}

TypeSchemas ==
  {Frag("type", JArr(tl)) : tl \in SeqsUpTo(TypeAlts, MaxTypeAlts)}
    \cup {Frag("type", t) : t \in TypeAlts \cup {JStr("array"), JInt(5)}}
    \cup {EmptyObj}

PropFrags ==
  {EmptyObj, Frag("type", JStr("string")), Frag("optional", JBool(TRUE)),
   With(Frag("optional", JBool(TRUE)), "type", JStr("integer")),
   Frag("requires", JStr("b")), Frag("minItems", JInt(2))}

AdditionalValues ==
  {JBool(FALSE), EmptyObj, Frag("type", JStr("number")),
   Frag("type", JStr("string"))}

PropSchemas ==
  LET base == {Frag("properties", JObj(f)) : f \in MapsOver(PropFrags)} IN
  base \cup {With(b, "additionalProperties", a) :
               b \in base, a \in AdditionalValues}
       \cup {Frag("additionalProperties", a) : a \in AdditionalValues}

ItemFrags ==
  {EmptyObj, Frag("type", JStr("string")), Frag("type", JStr("integer")),
   Frag("requires", JStr("b"))}

MaxTupleLen == 2

ItemSchemas ==
  LET base == {Frag("items", JArr(t)) : t \in SeqsUpTo(ItemFrags, MaxTupleLen)}
                \cup {Frag("items", f) : f \in ItemFrags}
  IN base \cup {With(b, "additionalProperties", a) :
                  b \in base,
                  a \in {JBool(FALSE), Frag("type", JStr("string"))}}

EnumElems == {JInt(1), JInt(2), JInt(4), JFlt(3), JStr("x"), JBool(FALSE), Null}

EnumSchemas ==
  {Frag("enum", JArr(e)) : e \in SeqsUpTo(EnumElems, MaxEnumLen)}
    \cup {Frag("enum", JArr(<<JInt(1), JInt(2), JInt(3)>>)),
          Frag("enum", JInt(1)),
          With(Frag("enum", JArr(<<JInt(1), JInt(2), JInt(3)>>)),
               "type", JStr("integer"))}

\* the gated keywords, each with default, non-default and malformed values
GatedSettings ==
  {<<"minimum", JInt(1)>>, <<"minimum", Null>>, <<"minimum", JStr("x")>>,
   <<"maximum", JInt(1)>>, <<"maximum", JStr("x")>>,
   <<"minItems", JInt(0)>>, <<"minItems", JInt(2)>>, <<"minItems", JInt(-1)>>,
   <<"minItems", JStr("x")>>, <<"minItems", JBool(FALSE)>>,
   <<"minItems", JBool(TRUE)>>,
   <<"maxItems", JInt(2)>>, <<"maxItems", JStr("x")>>,
   <<"uniqueItems", JBool(TRUE)>>, <<"uniqueItems", JBool(FALSE)>>,
   <<"uniqueItems", JInt(1)>>,
   <<"pattern", JStr("a+")>>, <<"pattern", JStr("(")>>,
   <<"minLength", JInt(0)>>, <<"minLength", JInt(1)>>,
   <<"minLength", JBool(FALSE)>>,
   <<"maxLength", JInt(1)>>,
   <<"format", JStr("date-time")>>, <<"format", JStr("uri")>>,
   <<"contentEncoding", JStr("base64")>>, <<"contentEncoding", JStr("7bit")>>,
   <<"contentEncoding", JStr("rot13")>>,
   <<"divisibleBy", JInt(1)>>, <<"divisibleBy", JInt(2)>>,
   <<"divisibleBy", JFlt(2)>>, <<"divisibleBy", Null>>,
   <<"divisibleBy", JBool(TRUE)>>,
   <<"disallow", JStr("string")>>, <<"disallow", JArr(<<>>)>>}

GatedFrags == {Frag(g[1], g[2]) : g \in GatedSettings}

\* a gated fragment at the root, and in every place a fragment can be nested
GatedSchemas ==
  GatedFrags
    \cup {With(g, "type", t) : g \in GatedFrags,
                               t \in {JStr("string"), JStr("array")}}
    \cup {With(With(g, "type", JStr("array")),
                "items", Frag("type", JStr("integer"))) : g \in GatedFrags}
    \cup {Frag("properties", JObj("a" :> g)) : g \in GatedFrags}
    \cup {Frag("additionalProperties", g) : g \in GatedFrags}
    \cup {Frag("items", g) : g \in GatedFrags}
    \cup {Frag("items", JArr(<<g>>)) : g \in GatedFrags}
    \cup {Frag("type", JArr(<<JStr("null"), g>>)) : g \in GatedFrags}
    \cup {Frag("properties", JObj("a" :> Frag("requires", g))) :
            g \in GatedFrags}

GatedDocs ==
  {JStr("x"), JInt(1), Null, EmptyObj, JObj("a" :> JInt(1)),
   JObj("a" :> JStr("x")), JArr(<<>>), JArr(<<JInt(1)>>),
   JArr(<<JInt(1), JInt(2)>>), JArr(<<JStr("x")>>)}

RequiresB == Frag("requires", JStr("b"))

\* requires on the root, on a property, on an item, in a type alternative,
\* two levels down, and as a nested schema
RequiresSchemas ==
  {RequiresB,
   With(RequiresB, "type", JStr("integer")),
   Frag("properties", JObj("a" :> With(RequiresB, "type", JStr("integer")))),
   Frag("properties", JObj("a" :> Frag("type", JArr(<<RequiresB>>)))),
   Frag("properties", JObj("a" :> Frag("properties", JObj("a" :> RequiresB)))),
   Frag("properties", JObj("a" :> Frag("items", RequiresB))),
   Frag("items", Frag("properties", JObj("a" :> RequiresB))),
   Frag("additionalProperties", RequiresB),
   Frag("properties",
        JObj("a" :> Frag("requires",
                         Frag("properties",
                              JObj("b" :> Frag("type", JStr("integer"))))))),
   Frag("properties",
        JObj("a" :> Frag("properties",
                         JObj("a" :> Frag("requires", RequiresB)))))}

\* objects two levels deep, with and without a key b at either level
DeepDocs ==
  {JObj(("a" :> JObj("a" :> JInt(1))) @@ ("b" :> JInt(2))),
   JObj(("a" :> JObj(("a" :> JInt(1)) @@ ("b" :> JStr("x"))))),
   JObj(("a" :> JObj(("a" :> JInt(1)) @@ ("b" :> JInt(2))))
          @@ ("b" :> JInt(2))),
   JObj("a" :> JArr(<<JObj("a" :> JInt(1))>>))}

\* extends at the root, next to a type, and on a property
ExtendsSchemas ==
  {Frag("extends", Frag("type", JStr("string"))),
   Frag("extends", EmptyObj),
   With(Frag("extends", EmptyObj), "type", JStr("string")),
   Frag("properties", JObj("a" :> Frag("extends", EmptyObj))),
   Frag("items", Frag("extends", EmptyObj))}

\* a nested-schema requires that sends validation back up to the parent,
\* which is then descended again
ReDescendSchemas ==
  {Frag("properties",
        JObj("a" :> Frag("requires",
                         Frag("properties",
                              JObj("a" :> Frag("type", JStr("integer"))))))),
   Frag("properties",
        JObj("a" :> Frag("requires",
                         Frag("properties",
                              JObj("a" :> Frag("requires",
                                               Frag("properties",
                                                    JObj("a" :> EmptyObj)))))))),
   Frag("additionalProperties", Frag("requires", Frag("items", EmptyObj))),
   Frag("items", Frag("requires", Frag("additionalProperties", EmptyObj)))}

\* the schemas and documents of the concurrent calls
CallSchemas ==
  RequiresSchemas \cup ReDescendSchemas \cup ExtendsSchemas
    \cup {EmptyObj, JStr("x"),
          Frag("type", JArr(<<JStr("string"), Frag("type", JStr("number"))>>)),
          Frag("type", JArr(<<>>)),
          Frag("properties", JObj("a" :> Frag("type", JStr("string")))),
          Frag("properties",
               JObj(("a" :> Frag("type", JStr("integer")))
                      @@ ("b" :> Frag("optional", JBool(TRUE))))),
          With(Frag("properties", JObj("a" :> EmptyObj)),
               "additionalProperties", JBool(FALSE)),
          Frag("additionalProperties", Frag("type", JStr("integer"))),
          Frag("items", Frag("type", JStr("integer"))),
          Frag("items", JArr(<<Frag("type", JStr("integer"))>>)),
          With(Frag("items", JArr(<<EmptyObj>>)),
               "additionalProperties", JBool(FALSE)),
          Frag("enum", JArr(<<JInt(1), JInt(2), JInt(3)>>)),
          Frag("minItems", JInt(2)),
          Frag("items", Frag("minItems", JInt(2)))}

CallDocs ==
  DeepDocs \cup NestedDocs \cup SmallDocs
    \cup {JStr("x"), JInt(1), JArr(<<JInt(1), JStr("x")>>)}

CallInputs == CallSchemas \X CallDocs

\* the schemas and documents of two interleaved calls
PairSchemas ==
  {RequiresB,
   Frag("properties", JObj("a" :> RequiresB)),
   Frag("properties",
        JObj("a" :> Frag("requires",
                         Frag("properties",
                              JObj("b" :> Frag("type", JStr("integer"))))))),
   Frag("items", Frag("requires", Frag("items", EmptyObj))),
   Frag("type", JArr(<<JStr("string"), Frag("type", JStr("number"))>>)),
   Frag("type", JArr(<<>>)),
   With(Frag("properties", JObj("a" :> Frag("type", JStr("string")))),
        "additionalProperties", JBool(FALSE)),
   Frag("items", JArr(<<Frag("type", JStr("integer"))>>)),
   Frag("enum", JArr(<<JInt(1), JInt(2), JInt(3)>>)),
   Frag("items", Frag("minItems", JInt(2))),
   EmptyObj, JStr("x")}

PairDocs ==
  {JInt(1), JStr("x"), JObj("a" :> JInt(1)), JObj("a" :> JStr("x")),
   JObj(("a" :> JInt(1)) @@ ("b" :> JInt(2))),
   JArr(<<JInt(1)>>), JArr(<<JArr(<<>>), JStr("x")>>)}

PairInputs == PairSchemas \X PairDocs

Inputs ==
  (TypeSchemas \X (ScalarDocs \cup SmallDocs))
    \cup (PropSchemas \X (ObjectDocs \cup NestedDocs \cup {JInt(1)}))
    \cup (ItemSchemas \X (ArrayDocs \cup NestedDocs \cup {JInt(1)}))
    \cup (EnumSchemas \X (ScalarDocs \cup SmallDocs))
    \cup (GatedSchemas \X GatedDocs)
    \cup (RequiresSchemas
            \X (ObjectDocs \cup NestedDocs \cup SmallDocs \cup DeepDocs))
    \cup (ExtendsSchemas \X ({JStr("x"), JInt(1)} \cup SmallDocs))
    \cup (ReDescendSchemas \X (DeepDocs \cup NestedDocs \cup SmallDocs))
    \cup ({JStr("x"), JArr(<<>>)} \X {JInt(1)})

(***************************************************************************)
(* The validate call, one action per statement of the root                 *)
(* _validate_no_push.                                                      *)
(***************************************************************************)
Init ==
  /\ \E in \in Inputs : schema = in[1] /\ obj = in[2]
  /\ hashOrder \in HashOrders
  /\ pc = "start"
  /\ obj_stack = <<>>
  /\ calls = <<>>
  /\ step = "none"
  /\ outcome = "none"
  /\ NoCallers

Self == NewValidator(obj_stack, calls)

\* the step ended with r: go on to next, or leave validate with the exception
Step(r, next) ==
  /\ obj_stack' = r.self.obj_stack
  /\ IF r.out = "ok"
     THEN /\ pc' = next
          /\ calls' = r.self.calls
          /\ outcome' = outcome
     ELSE /\ pc' = "done"
          /\ calls' = Append(r.self.calls,
                             Call(schema, obj, <<>>, r.out, r.self.obj_stack))
          /\ outcome' = r.out
  /\ UNCHANGED <<schema, obj, hashOrder, heap, threads>>

\* validate(schema_text, data_text) up to cls(): Schema(...) and Validator()
ValidateEntry ==
  /\ pc = "start"
  /\ IF SchemaInit(schema).err # "none"
     THEN /\ pc' = "done"
          /\ outcome' = SchemaInit(schema).err
     ELSE /\ pc' = "type"
          /\ outcome' = outcome
  /\ obj_stack' = <<>>
  /\ step' = "entry"
  /\ UNCHANGED <<schema, obj, hashOrder, calls, heap, threads>>

DoValidateType ==
  /\ pc = "type"
  /\ Step(ValidateType(schema, obj, Self), "requires")
  /\ step' = "type"

DoValidateRequires ==
  /\ pc = "requires"
  /\ Step(ValidateRequires(schema, obj, Self),
          IF IsDict(obj) THEN "properties"
          ELSE IF IsList(obj) THEN "items" ELSE "enum")
  /\ step' = "requires"

DoValidateProperties ==
  /\ pc = "properties"
  /\ Step(ValidateProperties(schema, obj, Push(Self, obj)), "additional")
  /\ step' = "properties"

DoValidateAdditionalProperties ==
  /\ pc = "additional"
  /\ Step(PopIfOk(ValidateAdditionalProperties(schema, obj, Self)),
          "unsupported")
  /\ step' = "additional"

DoValidateItems ==
  /\ pc = "items"
  /\ Step(PopIfOk(ValidateItems(schema, obj, Push(Self, obj))), "unsupported")
  /\ step' = "items"

DoValidateEnum ==
  /\ pc = "enum"
  /\ Step(ValidateEnum(schema, obj, Self), "unsupported")
  /\ step' = "enum"

\* _report_unsupported, then validate returns True
DoReportUnsupported ==
  /\ pc = "unsupported"
  /\ pc' = "done"
  /\ outcome' = ReportUnsupported(schema)
  /\ calls' = Append(calls, Call(schema, obj, <<>>, outcome', obj_stack))
  /\ step' = "unsupported"
  /\ UNCHANGED <<schema, obj, hashOrder, obj_stack, heap, threads>>

Next ==
  \/ ValidateEntry
  \/ DoValidateType
  \/ DoValidateRequires
  \/ DoValidateProperties
  \/ DoValidateAdditionalProperties
  \/ DoValidateItems
  \/ DoValidateEnum
  \/ DoReportUnsupported

Spec == Init /\ [][Next]_vars

\* r is what the run has left
LeftBy(r) ==
  /\ outcome = r.out
  /\ calls = r.self.calls
  /\ obj_stack = r.self.obj_stack

\* the steps of the root call compose to _validate_no_push as a whole
RootAgrees ==
  (pc = "done" /\ IsDict(schema)) =>
    LeftBy(ValidateNoPush(schema, obj, NewValidator(<<>>, <<>>)))

\* caller t is about to execute statement at of an activation of method m
At(t, m, at) ==
  /\ threads[t].status = "running"
  /\ threads[t].exc = "none"
  /\ threads[t].frames # <<>>
  /\ Top(threads[t]).m = m
  /\ Top(threads[t]).at = at

\* the statement of caller t has effect e; nothing else changes
Becomes(t, e) ==
  /\ threads' = [threads EXCEPT ![t] = e.th]
  /\ heap' = e.heap
  /\ UNCHANGED <<schema, obj, hashOrder, pc, obj_stack, calls, step, outcome>>

CallValidate(t) ==
  /\ threads[t].status = "idle"
  /\ Becomes(t, BeginStep(threads[t], heap))

RunType(t) ==
  /\ At(t, "no_push", "type")
  /\ Becomes(t, TypeStep(threads[t], heap))

RunRequires(t) ==
  /\ At(t, "no_push", "requires")
  /\ Becomes(t, RequiresStep(threads[t], heap))

RunDescend(t) ==
  /\ At(t, "no_push", "descend")
  /\ Becomes(t, DescendStep(threads[t], heap))

RunProperties(t) ==
  /\ At(t, "no_push", "properties")
  /\ Becomes(t, PropertiesStep(threads[t], heap))

RunAdditional(t) ==
  /\ At(t, "no_push", "additional")
  /\ Becomes(t, AdditionalStep(threads[t], heap))

RunItems(t) ==
  /\ At(t, "no_push", "items")
  /\ Becomes(t, ItemsStep(threads[t], heap))

RunPop(t) ==
  /\ At(t, "no_push", "pop")
  /\ Becomes(t, PopStep(threads[t], heap))

RunEnum(t) ==
  /\ At(t, "no_push", "enum")
  /\ Becomes(t, EnumStep(threads[t], heap))

RunUnsupported(t) ==
  /\ At(t, "no_push", "unsupported")
  /\ Becomes(t, UnsupportedStep(threads[t], heap))

RunValidatePush(t) ==
  /\ At(t, "validate", "push")
  /\ Becomes(t, ValidatePushStep(threads[t], heap))

RunValidateFinally(t) ==
  /\ At(t, "validate", "finally")
  /\ Becomes(t, ValidateFinallyStep(threads[t], heap))

Unwind(t) ==
  /\ threads[t].status = "running"
  /\ threads[t].exc # "none"
  /\ threads[t].frames # <<>>
  /\ Becomes(t, UnwindStep(threads[t], heap))

ReturnFromValidate(t) ==
  /\ threads[t].status = "running"
  /\ threads[t].frames = <<>>
  /\ Becomes(t, EndStep(threads[t], heap))

\* the next statement of caller t
Run(t) ==
  \/ CallValidate(t)
  \/ RunType(t)
  \/ RunRequires(t)
  \/ RunDescend(t)
  \/ RunProperties(t)
  \/ RunAdditional(t)
  \/ RunItems(t)
  \/ RunPop(t)
  \/ RunEnum(t)
  \/ RunUnsupported(t)
  \/ RunValidatePush(t)
  \/ RunValidateFinally(t)
  \/ Unwind(t)
  \/ ReturnFromValidate(t)

\* one caller validates the document
InitCalls ==
  /\ \E in \in CallInputs : schema = in[1] /\ obj = in[2]
  /\ hashOrder \in HashOrders
  /\ pc = "start"
  /\ obj_stack = <<>>
  /\ calls = <<>>
  /\ step = "none"
  /\ outcome = "none"
  /\ heap = <<>>
  /\ threads = [t \in Callers |-> IF t = 1 THEN Idle ELSE Absent]

\* two callers validate the same document against the same schema
InitPair ==
  /\ \E in \in PairInputs : schema = in[1] /\ obj = in[2]
  /\ hashOrder \in HashOrders
  /\ pc = "start"
  /\ obj_stack = <<>>
  /\ calls = <<>>
  /\ step = "none"
  /\ outcome = "none"
  /\ NoCallers

NextCalls == \E t \in Callers : Run(t)

\* one validate call, statement by statement; the call does not block, so a
\* caller that can take a step takes it
SpecCall ==
  InitCalls /\ [][NextCalls]_vars /\ \A t \in Callers : WF_vars(Run(t))

\* two validate calls on the same schema and document, interleaved
SpecPair ==
  InitPair /\ [][NextCalls]_vars /\ \A t \in Callers : WF_vars(Run(t))

(***************************************************************************)
(* Vocabulary of the claims.                                               *)
(***************************************************************************)
Fresh == NewValidator(<<>>, <<>>)

Done == pc = "done" /\ IsDict(schema)

\* the kind-membership rule for simple type names, as the design states it
KindRule(name, o) ==
  CASE name = "string"  -> o.k = "str"
    [] name = "number"  -> o.k \in {"int", "float"}
    [] name = "integer" -> o.k = "int"
    [] name = "boolean" -> o.k = "bool"
    [] name = "object"  -> o.k = "obj"
    [] name = "array"   -> o.k = "arr"
    [] name = "null"    -> o.k = "null"
    [] name = "any"     -> TRUE

\* an alternative of a type list matches the node
AltMatches(alt, o) ==
  IF IsDict(alt) THEN ValidateNoPush(alt, o, Fresh).out = "ok"
  ELSE KindRule(alt.v, o)

\* the type list of the root schema, when it is well formed and not empty
RootTypeList == SchemaType(schema).val

WellFormedTypeList ==
  /\ IsDict(schema)
  /\ SchemaType(schema).err = "none"
  /\ Len(RootTypeList) > 0

\* C1: once the type check of the root node has run on a well-formed type
\* list, it has passed exactly when some alternative of the list matches the
\* node, and a failed check is a validation mismatch.
C1_TypeCheckIffSomeAlternativeMatches ==
  (step = "type" /\ WellFormedTypeList) =>
    /\ (pc = "requires") <=>
         \E i \in 1..Len(RootTypeList) : AltMatches(RootTypeList[i], obj)
    /\ (pc = "done" => outcome = "ValidationError")

C2Schema ==
  Frag("type", JArr(<<JStr("string"), Frag("type", JStr("number"))>>))

\* C2: {"type": ["string", {"type": "number"}]} accepts every string and
\* every number, and rejects true, false and null with a validation mismatch.
C2_StringOrNumberRejectsBooleans ==
  (Done /\ schema = C2Schema) =>
    /\ (obj.k \in {"str", "int", "float"} => outcome = "ok")
    /\ (obj.k \in {"bool", "null"} => outcome = "ValidationError")

\* the keywords the engine implements
PlainKeywords ==
  {"type", "properties", "items", "optional", "additionalProperties",
   "requires", "enum"}

\* the elements of a list or the values of a mapping
Members(value) ==
  IF IsList(value) THEN {value.v[i] : i \in 1..Len(value.v)}
  ELSE IF IsDict(value) THEN {value.v[key] : key \in DOMAIN value.v}
  ELSE {}

\* the schema fragments written directly inside fragment s
SubFragments(s) ==
  LET at(key) == IF key \in DOMAIN s.v THEN s.v[key] ELSE Null
      one(key) == IF IsDict(at(key)) THEN {at(key)} ELSE {}
      listed(key) == IF IsList(at(key)) THEN Members(at(key)) ELSE {}
  IN {f \in one("type") \cup listed("type") : IsDict(f)}
       \cup Members(IF IsDict(at("properties")) THEN at("properties") ELSE Null)
       \cup one("items") \cup listed("items")
       \cup one("additionalProperties")
       \cup one("requires")

\* every keyword of fragment s is an implemented one with a well-formed value
PlainHere(s) ==
  /\ IsDict(s)
  /\ DOMAIN s.v \subseteq PlainKeywords
  /\ SchemaType(s).err = "none"
  /\ Len(SchemaType(s).val) > 0
  /\ SchemaProperties(s).err = "none"
  /\ SchemaItems(s).err = "none"
  /\ SchemaOptional(s).err = "none"
  /\ SchemaAdditionalProperties(s).err = "none"
  /\ SchemaRequires(s).err = "none"
  /\ SchemaEnum(s).err = "none"

RECURSIVE Plain(_)
\* a well-formed fragment that uses implemented keywords only, all the way down
Plain(s) ==
  /\ PlainHere(s)
  /\ \A f \in SubFragments(s) : Plain(f)

\* a plain schema either accepts the document or reports a mismatch
PlainOutcomes ==
  (Done /\ Plain(schema)) => outcome \in {"ok", "ValidationError"}

\* mapping f without key
Without(f, key) == [x \in DOMAIN f \ {key} |-> f[x]]

\* the declared properties of the root schema, for an object document
ObjectRun ==
  /\ Done
  /\ IsDict(obj)
  /\ SchemaProperties(schema).err = "none"

RootProps == SchemaProperties(schema).val.v

\* property P is declared with a schema whose optional is absent, false or
\* true, and the document lacks it
Missing(P) ==
  /\ P \in DOMAIN RootProps
  /\ P \notin DOMAIN obj.v
  /\ IsDict(RootProps[P])
  /\ "optional" \in DOMAIN RootProps[P].v =>
       RootProps[P].v["optional"] \in {JBool(TRUE), JBool(FALSE)}

\* the schema of property P says optional: true
IsOptional(P) ==
  /\ "optional" \in DOMAIN RootProps[P].v
  /\ RootProps[P].v["optional"] = JBool(TRUE)

\* the root schema with property P not declared
SchemaWithoutProperty(P) ==
  JObj([schema.v EXCEPT !["properties"] = JObj(Without(@.v, P))])

\* all but the last (the root's own) entry of a call history
Nested(history) == SubSeq(history, 1, Len(history) - 1)

\* if run r passed then so did the run of the model, by the same nested calls
PassedLike(r) ==
  r.out = "ok" => (outcome = "ok" /\ Nested(calls) = Nested(r.self.calls))

\* C3: a declared property that the document lacks makes validation fail, with
\* a mismatch when the schema is plain, unless its schema says optional: true;
\* a missing optional property changes nothing: when the schema without it
\* accepts the document, so does the schema with it, and by the same nested
\* validations (the property's own schema is not applied).
C3_MissingPropertyNeedsOptional ==
  ObjectRun =>
    \A P \in Keys :
      Missing(P) =>
        IF IsOptional(P)
        THEN PassedLike(ValidateNoPush(SchemaWithoutProperty(P), obj, Fresh))
        ELSE /\ outcome # "ok"
             /\ Plain(schema) => outcome = "ValidationError"

\* C3 witness: a missing optional property with a type constraint, accepted,
\* next to a declared property that is present
C3_Witness ==
  /\ ObjectRun
  /\ outcome = "ok"
  /\ DOMAIN obj.v # {}
  /\ \E P \in Keys :
       Missing(P) /\ IsOptional(P) /\ "type" \in DOMAIN RootProps[P].v

\* additionalProperties: false at the root
AdditionalFalse ==
  /\ "additionalProperties" \in DOMAIN schema.v
  /\ IsFalse(schema.v["additionalProperties"])

SchemaWithoutKeyword(key) == JObj(Without(schema.v, key))

Passed(r) == r.out = "ok" => outcome = "ok"

\* C4: with additionalProperties: false, an object with a key that properties
\* does not declare is never accepted (a mismatch when the schema is plain);
\* an object whose keys are all declared is accepted whenever the rest of the
\* schema accepts it.
C4_AdditionalPropertiesFalse ==
  (ObjectRun /\ AdditionalFalse) =>
    IF DOMAIN obj.v \subseteq DOMAIN RootProps
    THEN Passed(ValidateNoPush(SchemaWithoutKeyword("additionalProperties"),
                               obj, Fresh))
    ELSE /\ outcome # "ok"
         /\ Plain(schema) => outcome = "ValidationError"

\* C4 witness: the only fault of the document is its undeclared key
C4_Witness ==
  /\ ObjectRun
  /\ AdditionalFalse
  /\ outcome = "ValidationError"
  /\ DOMAIN RootProps # {}
  /\ DOMAIN RootProps \subseteq DOMAIN obj.v
  /\ DOMAIN obj.v # DOMAIN RootProps
  /\ step = "additional"

\* additionalProperties is a nested schema at the root
AdditionalSchema ==
  /\ "additionalProperties" \in DOMAIN schema.v
  /\ IsDict(schema.v["additionalProperties"])

\* C5: with a nested schema as additionalProperties, an object whose keys are
\* all declared and that the rest of the schema accepts is accepted, whatever
\* the additionalProperties schema is.
C5_AdditionalSchemaOnlyForUndeclared ==
  (ObjectRun /\ AdditionalSchema /\ DOMAIN obj.v \subseteq DOMAIN RootProps) =>
    Passed(ValidateNoPush(SchemaWithoutKeyword("additionalProperties"),
                          obj, Fresh))

\* the root schema is a tuple-typing schema: items is a list of plain
\* fragments, and nothing but items and additionalProperties is set
TupleRun ==
  /\ Done
  /\ IsList(obj)
  /\ DOMAIN schema.v \subseteq {"items", "additionalProperties"}
  /\ "items" \in DOMAIN schema.v
  /\ IsList(schema.v["items"])
  /\ Plain(schema)

TupleSchemas == schema.v["items"].v

\* the additionalProperties value in force: false, a schema, or the default {}
TupleFill == SchemaAdditionalProperties(schema).val

\* the schema paired with the element at index i (counted from 1)
Paired(i) == IF i <= Len(TupleSchemas) THEN TupleSchemas[i] ELSE TupleFill

\* the element at index i conforms to the schema paired with it
Conforms(i) ==
  Validate(Paired(i), obj.v[i], NewValidator(<<obj>>, <<>>)).out = "ok"

\* the element at index i was validated against fragment s
ValidatedAgainst(i, s) ==
  \E n \in 1..Len(calls) :
    /\ calls[n].schema = s
    /\ calls[n].obj = obj.v[i]
    /\ calls[n].enter = <<obj, obj.v[i]>>

\* C6: tuple typing with N item schemas: a shorter array is a mismatch; an
\* array of another length is a mismatch when additionalProperties is false;
\* otherwise the array is accepted exactly when every element conforms to the
\* schema paired with it, the elements past N being validated against the
\* additionalProperties schema (the default {} when it is absent).
C6_TupleTyping ==
  TupleRun =>
    IF Len(obj.v) < Len(TupleSchemas) THEN outcome = "ValidationError"
    ELSE IF Len(obj.v) # Len(TupleSchemas) /\ IsFalse(TupleFill)
    THEN outcome = "ValidationError"
    ELSE IF \A i \in 1..Len(obj.v) : Conforms(i)
    THEN /\ outcome = "ok"
         /\ \A i \in (Len(TupleSchemas) + 1)..Len(obj.v) :
              ValidatedAgainst(i, TupleFill)
    ELSE outcome = "ValidationError"

\* C6 witness: an array longer than a constraining tuple schema, accepted
\* because additionalProperties is absent
C6_Witness ==
  /\ TupleRun
  /\ DOMAIN schema.v = {"items"}
  /\ Len(TupleSchemas) > 0
  /\ \A i \in 1..Len(TupleSchemas) : "type" \in DOMAIN TupleSchemas[i].v
  /\ Len(obj.v) > Len(TupleSchemas)
  /\ outcome = "ok"

\* equality of two scalar document values: same kind and same value, numbers
\* compared by numeric value, booleans never equal to numbers
JsonEq(a, b) ==
  IF a.k \in {"int", "float"} /\ b.k \in {"int", "float"}
  THEN NumVal(a) = NumVal(b)
  ELSE a.k = b.k /\ a.v = b.v

\* the root schema is an enum fragment with a well-formed list, and the
\* document is a scalar
EnumRun ==
  /\ Done
  /\ DOMAIN schema.v = {"enum"}
  /\ SchemaEnum(schema).err = "none"
  /\ IsList(schema.v["enum"])
  /\ ~IsDict(obj) /\ ~IsList(obj)

\* C7: a scalar node passes the enum check exactly when it equals some element
\* of the list by value, and is a validation mismatch otherwise.
C7_EnumByValue ==
  EnumRun =>
    IF \E i \in 1..Len(schema.v["enum"].v) : JsonEq(obj, schema.v["enum"].v[i])
    THEN outcome = "ok"
    ELSE outcome = "ValidationError"

\* fragment s sets requires to a property name
RequiresString(s) == "requires" \in DOMAIN s.v /\ IsBasestring(s.v["requires"])

\* the second-from-top entry of stack is an object with the key named name
ParentHas(stack, name) ==
  /\ Len(stack) >= 2
  /\ IsDict(stack[Len(stack) - 1])
  /\ name \in DOMAIN stack[Len(stack) - 1].v

\* the ended call c obeys the requires rule
RequiresObeyed(c) ==
  LET has == ParentHas(c.enter, c.schema.v["requires"].v) IN
  /\ c.out = "ok" => has
  /\ (~has /\ Plain(c.schema)) => c.out = "ValidationError"
  /\ (has /\ DOMAIN c.schema.v = {"requires"}) => c.out = "ok"

RequiresExample == Frag("properties", JObj("a" :> RequiresB))

\* C8: a node whose fragment sets requires to a property name S is a mismatch
\* unless the second-from-top stack entry is an object with key S; with
\* requires: "b" on property a, an object with a passes exactly when it has b;
\* an array item with requires: "b" is a mismatch.
C8_RequiresPropertyName ==
  /\ \A n \in 1..Len(calls) :
       RequiresString(calls[n].schema) => RequiresObeyed(calls[n])
  /\ (Done /\ schema = RequiresExample /\ IsDict(obj) /\ "a" \in DOMAIN obj.v) =>
       outcome = (IF "b" \in DOMAIN obj.v THEN "ok" ELSE "ValidationError")
  /\ (Done /\ schema = Frag("items", RequiresB) /\ IsList(obj)
        /\ Len(obj.v) > 0) => outcome = "ValidationError"

\* C8 witness: {"a": 1, "b": 2} accepted by the example schema
C8_Witness ==
  /\ Done
  /\ schema = RequiresExample
  /\ obj = JObj(("a" :> JInt(1)) @@ ("b" :> JInt(2)))
  /\ outcome = "ok"
  /\ \E n \in 1..Len(calls) :
       calls[n].schema = RequiresB /\ calls[n].enter = <<obj, JInt(1)>>

\* the root schema sets minItems to a well-formed value other than the default
HasMinItems ==
  /\ "minItems" \in DOMAIN schema.v
  /\ schema.v["minItems"].k = "int"
  /\ schema.v["minItems"].v > 0

\* C9 as stated: a schema that sets minItems to a non-default value always
\* ends with the unsupported-feature error, for every document.
C9_MinItemsAlwaysUnsupported ==
  (Done /\ HasMinItems) => outcome = "NotImplementedError"

\* the run ends as the gate after run r of the rest of the schema makes it end
GatedAfter(r) ==
  /\ r.out = "ok" => outcome = "NotImplementedError"
  /\ r.out = "ValidationError" => outcome = "ValidationError"

\* C9 amended: a schema that sets minItems to a non-default value never
\* accepts a document; the run ends with the unsupported-feature error when
\* the document conforms to the rest of the schema, and with the validation
\* mismatch when the rest of the schema finds one (the gate is the last step).
C9_MinItemsNeverAccepted ==
  (Done /\ HasMinItems) =>
    /\ outcome # "ok"
    /\ GatedAfter(ValidateNoPush(SchemaWithoutKeyword("minItems"), obj, Fresh))

\* C9 witness: a conforming array stopped by the gate
C9_Witness ==
  /\ Done
  /\ HasMinItems
  /\ "items" \in DOMAIN schema.v
  /\ IsList(obj)
  /\ Len(obj.v) >= schema.v["minItems"].v
  /\ outcome = "NotImplementedError"
  /\ step = "unsupported"

GatedKeywords ==
  {"minimum", "maximum", "minItems", "maxItems", "uniqueItems", "pattern",
   "minLength", "maxLength", "format", "contentEncoding", "divisibleBy",
   "disallow"}

\* value is the default of the gated keyword key: 0 for minItems and
\* minLength and 1 for divisibleBy as numbers (false and true are the numbers
\* 0 and 1 to the schema view), false for uniqueItems, null for the others
AtDefault(key, value) ==
  CASE key \in {"minItems", "minLength"} -> IsNumeric(value) /\ NumVal(value) = 0
    [] key = "divisibleBy" -> IsNumeric(value) /\ NumVal(value) = 2
    [] key = "uniqueItems" -> value = JBool(FALSE)
    [] OTHER -> value = Null

\* fragment s sets no gated keyword to a value other than its default
NoGated(s) ==
  \A key \in GatedKeywords \cap DOMAIN s.v : AtDefault(key, s.v[key])

C11_ExtendsNeverAccepted ==
  (Done /\ "extends" \in DOMAIN schema.v) => outcome # "ok"

\* list holds the same scalar entry (a type name, an enum value) at two
\* positions
HasDuplicate(list) ==
  \E i, j \in 1..Len(list) :
    i < j /\ list[i] = list[j] /\ ~IsDict(list[i]) /\ ~IsList(list[i])

\* keyword key of the root schema is a list with a duplicate entry
DuplicateIn(key) ==
  /\ key \in DOMAIN schema.v
  /\ IsList(schema.v[key])
  /\ HasDuplicate(schema.v[key].v)

\* C12: a schema whose enum list or type list has a duplicate entry is
\* reported as a schema defect, whatever the document.
C12_DuplicatesAreSchemaDefects ==
  (Done /\ (DuplicateIn("enum") \/ DuplicateIn("type"))) =>
    outcome = "SchemaError"

\* C13: the type accessor never yields an empty list: an empty type list is a
\* schema defect, and a type check that fails ends in a schema defect or a
\* validation mismatch.
C13_TypeListNeverEmpty ==
  /\ (IsDict(schema) /\ SchemaType(schema).err = "none") =>
       Len(SchemaType(schema).val) > 0
  /\ (Done /\ "type" \in DOMAIN schema.v /\ schema.v["type"] = JArr(<<>>)) =>
       outcome = "SchemaError"
  /\ (step = "type" /\ pc = "done") =>
       outcome \in {"SchemaError", "ValidationError"}

\* C15: every validation step on a node that has ended, with success or with
\* an exception, has left the ancestor stack as it was when the step began.
C15_StackRestored ==
  \A n \in 1..Len(calls) : calls[n].exit = calls[n].enter

\* the last entry of a stack, and the one before it
TopOf(stack) == stack[Len(stack)]

SecondOf(stack) == stack[Len(stack) - 1]

\* stack without its top two entries
Truncated(stack) == SubSeq(stack, 1, Len(stack) - 2)

\* stack has node on top and a container of node right below it
NodeAndParentOnTop(stack, node) ==
  /\ Len(stack) >= 2
  /\ TopOf(stack) = node
  /\ node \in Members(SecondOf(stack))

\* C16 as stated: whenever a node is under validation, the top of the stack
\* is that node, and the entry below it, when present, is the container that
\* directly holds the node.
C16_TopIsNodeUnderValidation ==
  \A n \in 1..Len(calls) :
    /\ calls[n].enter # <<>>
    /\ TopOf(calls[n].enter) = calls[n].obj
    /\ Len(calls[n].enter) >= 2 =>
         calls[n].obj \in Members(SecondOf(calls[n].enter))

\* C16 amended: when the validation of a node begins (its type and requires
\* checks), the stack is empty if the node is the document root, and otherwise
\* it has the node on top and the node's immediate container right below it.
C16_StackAtNodeEntry ==
  \A n \in 1..Len(calls) :
    IF calls[n].enter = <<>> THEN calls[n].obj = obj
    ELSE NodeAndParentOnTop(calls[n].enter, calls[n].obj)

\* C16 witness: an accepted run that validated a node two levels down
C16_Witness ==
  /\ Done
  /\ outcome = "ok"
  /\ \E n \in 1..Len(calls) :
       /\ Len(calls[n].enter) = 4
       /\ calls[n].enter[1] = obj
       /\ calls[n].enter[2] = calls[n].enter[3]

\* the ended call c is of a non-root node whose fragment sets requires to a
\* nested schema, and its type check has passed, so its requires check has run
RequiresSchemaRan(c) ==
  /\ Len(c.enter) >= 2
  /\ "requires" \in DOMAIN c.schema.v
  /\ IsDict(c.schema.v["requires"])
  /\ ValidateType(c.schema, c.obj, NewValidator(c.enter, <<>>)).out = "ok"

\* the history up to entry n holds the validation of the parent of call c
\* against the requires schema of c, begun on the truncated stack and ended
\* with out
ParentValidated(n, c, out) ==
  \E m \in 1..(n - 1) :
    /\ calls[m].schema = c.schema.v["requires"]
    /\ calls[m].obj = SecondOf(c.enter)
    /\ calls[m].enter = Truncated(c.enter)
    /\ calls[m].out = out

\* call c, entry n of the history, ended as claimed, given the outcome sub of
\* validating its parent against its requires schema on the truncated stack and
\* the outcome rest of the same call without the requires keyword
RequiresSettled(n, c, sub, rest) ==
  /\ sub.out # "ok" => (c.out = sub.out /\ c.exit = c.enter)
  /\ sub.out = "ok" => c.out = rest.out
  /\ c.schema.v["requires"] # EmptyObj => ParentValidated(n, c, sub.out)

\* C17: for a non-root node whose fragment sets requires to a nested schema R,
\* the requires check passes exactly when the node's parent validates against
\* R on a stack of its own that holds the ancestor stack without its top two
\* entries; a failure of that validation is the outcome of the node's
\* validation and leaves the caller's stack unchanged.
C17_RequiresNestedSchema ==
  \A n \in 1..Len(calls) :
    RequiresSchemaRan(calls[n]) =>
      RequiresSettled(n, calls[n],
        ValidateNoPush(calls[n].schema.v["requires"], SecondOf(calls[n].enter),
                       NewValidator(Truncated(calls[n].enter), <<>>)),
        ValidateNoPush(JObj(Without(calls[n].schema.v, "requires")),
                       calls[n].obj, NewValidator(calls[n].enter, <<>>)))

\* C17 witness: two levels down, a requires schema that itself requires key b
\* of the grandparent, satisfied
C17_Witness ==
  /\ Done
  /\ outcome = "ok"
  /\ \E n \in 1..Len(calls) :
       /\ RequiresSchemaRan(calls[n])
       /\ Len(calls[n].enter) = 4
       /\ calls[n].schema.v["requires"] = RequiresB

\* the history holds, after entry n, the call on the parent of call c, begun
\* on the stack of c without its top two entries
ParentContext(n, c) ==
  \E m \in (n + 1)..Len(calls) :
    /\ calls[m].obj = SecondOf(c.enter)
    /\ calls[m].enter = Truncated(c.enter)

\* C19: when a run has ended, every validation of a non-root node began on a
\* stack of at least two entries, and that stack without its top two entries
\* is the stack on which the validation of the node's parent began.
C19_TruncatedStackIsParentContext ==
  Done =>
    \A n \in 1..Len(calls) :
      calls[n].enter # <<>> =>
        (Len(calls[n].enter) >= 2 /\ ParentContext(n, calls[n]))

\* C19 witness: a requires schema of a node two levels down has been handed
\* the context of the node's parent
C19_Witness ==
  /\ Done
  /\ \E n \in 1..Len(calls) :
       /\ calls[n].schema = RequiresB
       /\ Len(calls[n].enter) = 2
       /\ IsDict(calls[n].obj)
       /\ \E m \in (n + 1)..Len(calls) :
            /\ Len(calls[m].enter) = 4
            /\ "requires" \in DOMAIN calls[m].schema.v
            /\ calls[m].schema.v["requires"] = RequiresB

\* the Validator a caller made for its top-level call: its first cell
RootCell(th) == CHOOSE c \in th.mine : \A d \in th.mine : c <= d

\* the outcome and the stack of one validate call that runs alone
AloneOutcome ==
  IF SchemaInit(schema).err # "none" THEN SchemaInit(schema).err
  ELSE ValidateNoPush(schema, obj, Fresh).out

AloneStack == ValidateNoPush(schema, obj, Fresh).self.obj_stack

\* no Validator belongs to two callers, and every activation of a caller runs
\* on a Validator that caller made
OwnStacks ==
  /\ \A t, u \in Callers : t # u => threads[t].mine \cap threads[u].mine = {}
  /\ \A t \in Callers : \A n \in 1..Len(threads[t].frames) :
       threads[t].frames[n].self \in threads[t].mine

\* a caller that has finished has the outcome, and has left the stack, of
\* the call run alone
OutcomeAsAlone ==
  \A t \in Callers : threads[t].status = "done" =>
    /\ threads[t].out = AloneOutcome
    /\ threads[t].mine # {} => heap[RootCell(threads[t])] = AloneStack

\* a step that is not a step of caller t leaves the stacks of t as they are
NoForeignChange ==
  \A t \in Callers : threads'[t] = threads[t] =>
    \A c \in threads[t].mine : heap'[c] = heap[c]

\* C14: every top-level validate call, and every sub-validation started for a
\* nested-schema requires, works on an ancestor stack of its own; under any
\* interleaving of the steps of two calls on the same schema and document no
\* push or pop of one call changes a stack of the other, and each call ends
\* with the outcome it has when it runs alone.
C14_CallsAreIndependent ==
  [](OwnStacks /\ OutcomeAsAlone) /\ [][NoForeignChange]_vars

\* both calls are in flight: one has its node and an ancestor on its stack
\* and has started a sub-validation, the other has made its Validator and
\* pushed nothing yet
C14_Witness ==
  \E t, u \in Callers :
    /\ t # u
    /\ threads[t].status = "running"
    /\ threads[u].status = "running"
    /\ Cardinality(threads[t].mine) >= 2
    /\ Len(heap[RootCell(threads[t])]) >= 2
    /\ heap[RootCell(threads[u])] = <<>>

\* the call has finished: no activation is left and it has one outcome
Finished(t) ==
  /\ threads[t].status = "done"
  /\ threads[t].frames = <<>>
  /\ threads[t].out \in
       {"ok", "ValidationError", "SchemaError", "NotImplementedError",
        "UnboundLocalError", "TypeError", "AttributeError"}

\* C18: for every schema and document a validate call eventually finishes,
\* with success or with exactly one error, after finitely many steps; this
\* includes a nested-schema requires that sends validation back to the parent
\* which is then descended again, and the default empty additionalProperties
\* and items fragments.
C18_ValidateTerminates == <>[]Finished(1)

\* a call has finished with success after two sub-validations, the second
\* started while the first descended the parent again
C18_Witness ==
  /\ Finished(1)
  /\ threads[1].out = "ok"
  /\ Cardinality(threads[1].mine) >= 3

====
